---- MODULE Spec2Model ----
(***************************************************************************)
(* TimeoutQueue of src/src/lib.rs: a BinaryHeap of Item {expiry_time, item} *)
(* ordered by the inverted comparison of expiry_time, and the optional      *)
(* Timeout next_timeout.  The clock is SystemTime::now(); every handler is  *)
(* one action.  last is the call that has just returned; n_pushed counts    *)
(* the pushes, returned and discarded hold the ids of the Items handed to   *)
(* the caller and of the Items dropped, popped the latest expiry_time that  *)
(* pop() handed out.                                                        *)
(***************************************************************************)
EXTENDS Bags, FiniteSets, Integers, Sequences, TLC

VARIABLES queue, next_timeout, now, last, n_pushed, returned, discarded, popped

vars == <<queue, next_timeout, now, last, n_pushed, returned, discarded, popped>>

\* ---------------------------------------------------------------- bounds
MaxPush == 2
MaxTime == 2
MaxTimeout == 1

Payloads == {0, 1}
Timeouts == 0..MaxTimeout
Filters == SUBSET Payloads

\* ---------------------------------------------------------- Option<T>
NoneV == [some |-> FALSE]
Some(x) == [some |-> TRUE, val |-> x]

\* ------------------------------------------------------------- Item<T>
\* id is the identity of the allocated Item (two Items of equal fields are
\* two objects); the code never reads it.
Item(expiry_time, item, id) == [expiry_time |-> expiry_time, item |-> item, id |-> id]

\* Ordering of two instants: -1 Less, 0 Equal, 1 Greater.
TimeCmp(a, b) == IF a < b THEN -1 ELSE IF a = b THEN 0 ELSE 1

\* The comparison without the inversion: the heap hands out the latest Item.
cmp_NotInverted(self, other) == TimeCmp(self.expiry_time, other.expiry_time)

\* impl Ord for Item: other.expiry_time.cmp(&self.expiry_time)
cmp(self, other) == TimeCmp(other.expiry_time, self.expiry_time)

\* ------------------------------------------------------ BinaryHeap<Item>
\* The heap is the bag of the Items it holds; which of several greatest
\* Items (equal under cmp) sits at the root is left open.
One(x) == SetToBag({x})

\* A container keyed by Eq of Item (expiry_time alone) keeps one Item per key.
heap_push_Keyed(q, x) ==
  IF \E y \in BagToSet(q) : y.expiry_time = x.expiry_time THEN q ELSE q (+) One(x)

\* BinaryHeap::push
heap_push(q, x) == q (+) One(x)

Greatest(q) == {x \in BagToSet(q) : \A y \in BagToSet(q) : cmp(x, y) >= 0}

heap_remove(q, x) == q (-) One(x)

\* peek(): the push handler reads only expiry_time of the root, which is the
\* same for every greatest Item.
peek_expiry(q) ==
  IF q = EmptyBag THEN NoneV
  ELSE Some((CHOOSE x \in Greatest(q) : TRUE).expiry_time)

len(q) == BagCardinality(q)
is_empty(q) == q = EmptyBag

\* --------------------------------------------------------------- Timeout
\* A Timeout registered at instant t for duration d; status is what poll()
\* finds: "pending" (NotReady), "fired" (Ready), "error" (Err).
timer_timeout(t, d) == Some([deadline |-> t + d, status |-> "pending"])

\* poll() whose Err is taken as the Timeout being over.
poll_ErrIsReady(nt) ==
  IF ~nt.some THEN "Ready"
  ELSE IF nt.val.status \in {"fired", "error"} THEN "Ready"
  ELSE "NotReady"

\* Option<Timeout>::poll(): None is Ready at once.
poll(nt) ==
  IF ~nt.some THEN "Ready"
  ELSE IF nt.val.status = "fired" THEN "Ready"
  ELSE IF nt.val.status = "error" THEN "Err"
  ELSE "NotReady"

\* SystemTime::duration_since(earlier): Err when earlier is later than self.
duration_since(self, earlier) ==
  IF self >= earlier THEN Some(self - earlier) ELSE NoneV

\* poll_timeout that registers anew whatever poll() reports.
poll_timeout_Always(q, nt, t) ==
  LET p == peek_expiry(q) IN
  IF ~p.some THEN NoneV
  ELSE LET d == duration_since(p.val, t) IN
       IF ~d.some THEN NoneV ELSE timer_timeout(t, d.val)

\* poll_timeout at clock value t.
poll_timeout(q, nt, t) ==
  IF poll(nt) = "Ready"
  THEN LET p == peek_expiry(q) IN
       IF ~p.some THEN NoneV
       ELSE LET d == duration_since(p.val, t) IN
            IF ~d.some THEN NoneV ELSE timer_timeout(t, d.val)
  ELSE nt

\* ------------------------------------------------------------ filter_pop
\* A filter is the set of the payloads it accepts.
Apply(filter, item) == item \in filter

\* |_| true
AlwaysTrue == Payloads

\* The comparison the other way round.
NotExpired_Reversed(x, t) == x.expiry_time < t

\* An Item whose expiry_time is the clock value counted as not yet expired.
NotExpired_Inclusive(x, t) == x.expiry_time >= t

\* x.expiry_time > now
NotExpired(x, t) == x.expiry_time > t

\* The expiry tested before the filter: an unexpired Item stops the scan
\* whatever the filter says of it.
Turn_ExpiryFirst(x, filter, t) ==
  IF NotExpired(x, t) THEN "break"
  ELSE IF ~Apply(filter, x.item) THEN "continue"
  ELSE "return"

\* What one turn of the loop does with the Item x it took from the heap:
\* continue (the Item is dropped), push back and break, or return Some.
Turn(x, filter, t) ==
  IF ~Apply(filter, x.item) THEN "continue"
  ELSE IF NotExpired(x, t) THEN "break"
  ELSE "return"

\* The Item taken out is not put back.
push_back_Lost(rest, x) == rest

\* The Item taken out is put back twice.
push_back_Twice(rest, x) == heap_push(heap_push(rest, x), x)

\* self.queue.push(x) of the loop: the Item taken out goes back into the heap.
push_back(rest, x) == heap_push(rest, x)

\* The loop of filter_pop at clock value t: the set of its possible runs,
\* one per order in which equal Items leave the heap.  applied are the Items
\* the filter was called on; polls tells whether the run reaches the call of
\* poll_timeout (return Some(..) leaves before it).
RECURSIVE filter_pop_loop(_, _, _, _, _)
filter_pop_loop(q, filter, t, dropped, applied) ==
  IF q = EmptyBag
  THEN {[queue |-> q, ret |-> NoneV, dropped |-> dropped,
         applied |-> applied, polls |-> TRUE]}
  ELSE UNION {
    LET rest == heap_remove(q, x)
        turn == Turn(x, filter, t)
    IN IF turn = "continue"
       THEN filter_pop_loop(rest, filter, t, dropped (+) One(x), applied \cup {x})
       ELSE IF turn = "break"
       THEN {[queue |-> push_back(rest, x), ret |-> NoneV, dropped |-> dropped,
              applied |-> applied \cup {x}, polls |-> TRUE]}
       ELSE {[queue |-> rest, ret |-> Some(x), dropped |-> dropped,
              applied |-> applied \cup {x}, polls |-> FALSE]}
    : x \in Greatest(q)}

filter_pop(q, filter, t) == filter_pop_loop(q, filter, t, EmptyBag, {})

\* ------------------------------------------------------------------ Init
NoCall == [op |-> "none"]

\* A constructor that registers a Timeout at once.
new_WithTimer == [queue |-> EmptyBag, next_timeout |-> timer_timeout(0, 0)]

\* TimeoutQueue::new()
new == [queue |-> EmptyBag, next_timeout |-> NoneV]

\* Default::default()
default == [queue |-> EmptyBag, next_timeout |-> NoneV]

\* The queue as either constructor leaves it.
Init ==
  /\ \E c \in {new, default} :
       /\ queue = c.queue
       /\ next_timeout = c.next_timeout
  /\ now = 0
  /\ last = NoCall
  /\ n_pushed = 0
  /\ returned = EmptyBag
  /\ discarded = EmptyBag
  /\ popped = NoneV

\* The clock values a later SystemTime::now() of the same call may read.
Later(t) == {u \in t..(t + 1) : u <= MaxTime}

\* The bag of the ids of the Items of bag b.
RECURSIVE IdsOf(_)
IdsOf(b) ==
  IF b = EmptyBag THEN EmptyBag
  ELSE LET x == CHOOSE y \in BagToSet(b) : TRUE
       IN IdsOf(b (-) One(x)) (+) One(x.id)

\* --------------------------------------------------------------- actions
\* push(item, timeout) on the queue q with the Timeout nt at clock value t;
\* t2 is the clock read inside poll_timeout, id the identity of the new Item.
call_push(q, nt, t, item, timeout, t2, id) ==
  LET expiry_time == t + timeout
      p == peek_expiry(q)
      reset_next_timeout == IF p.some THEN expiry_time < p.val ELSE FALSE
      x == Item(expiry_time, item, id)
      q2 == heap_push(q, x)
      nt2 == IF reset_next_timeout THEN NoneV ELSE nt
  IN [queue |-> q2, next_timeout |-> poll_timeout(q2, nt2, t2), now |-> t2,
      entry |-> x, reset |-> reset_next_timeout]

\* filter_pop that trusts the wake-up signal: while the Timeout is registered
\* and has not fired it returns None without looking at the heap.
call_filter_pop_TrustsTimer(q, nt, t, filter, t2) ==
  IF poll(nt) = "NotReady"
  THEN {[queue |-> q, next_timeout |-> nt, now |-> t, ret |-> NoneV,
         dropped |-> EmptyBag, applied |-> {}, polls |-> FALSE]}
  ELSE {[queue |-> r.queue,
         next_timeout |-> IF r.polls THEN poll_timeout(r.queue, nt, t2) ELSE nt,
         now |-> IF r.polls THEN t2 ELSE t,
         ret |-> r.ret, dropped |-> r.dropped, applied |-> r.applied,
         polls |-> r.polls] : r \in filter_pop(q, filter, t)}

\* filter_pop(filter) on the queue q with the Timeout nt at clock value t: the
\* loop, then poll_timeout at clock value t2 unless the loop returned Some.
call_filter_pop(q, nt, t, filter, t2) ==
  {[queue |-> r.queue,
    next_timeout |-> IF r.polls THEN poll_timeout(r.queue, nt, t2) ELSE nt,
    now |-> IF r.polls THEN t2 ELSE t,
    ret |-> r.ret, dropped |-> r.dropped, applied |-> r.applied,
    polls |-> r.polls] : r \in filter_pop(q, filter, t)}

\* push(item, timeout); t2 is the clock read inside poll_timeout.
Push(item, timeout, t2) ==
  /\ n_pushed < MaxPush
  /\ LET o == call_push(queue, next_timeout, now, item, timeout, t2, n_pushed + 1)
     IN /\ queue' = o.queue
        /\ next_timeout' = o.next_timeout
        /\ now' = o.now
        /\ last' = [op |-> "push", entry |-> o.entry]
  /\ n_pushed' = n_pushed + 1
  /\ UNCHANGED <<returned, discarded, popped>>

\* The body of filter_pop, called as op with the given filter; t2 is the
\* clock read inside poll_timeout.
Call(op, filter, t2) ==
  \E o \in call_filter_pop(queue, next_timeout, now, filter, t2) :
    /\ queue' = o.queue
    /\ next_timeout' = o.next_timeout
    /\ now' = o.now
    /\ returned' = IF o.ret.some THEN returned (+) One(o.ret.val.id) ELSE returned
    /\ discarded' = discarded (+) IdsOf(o.dropped)
    /\ popped' = IF op = "pop" /\ o.ret.some THEN Some(o.ret.val.expiry_time)
                 ELSE popped
    /\ last' = [op |-> op, filter |-> filter, ret |-> o.ret,
                dropped |-> o.dropped, applied |-> o.applied]
    /\ UNCHANGED n_pushed

\* pop(): filter_pop(|_| true)
Pop(t2) == Call("pop", AlwaysTrue, t2)

FilterPop(filter, t2) == Call("filter_pop", filter, t2)

\* The clock advances between calls.
Tick ==
  /\ now < MaxTime
  /\ now' = now + 1
  /\ last' = NoCall
  /\ UNCHANGED <<queue, next_timeout, n_pushed, returned, discarded, popped>>

\* The timer thread completes the registered Timeout, at its deadline or later.
TimerFire ==
  /\ next_timeout.some
  /\ next_timeout.val.status = "pending"
  /\ now >= next_timeout.val.deadline
  /\ next_timeout' = Some([next_timeout.val EXCEPT !.status = "fired"])
  /\ last' = NoCall
  /\ UNCHANGED <<queue, now, n_pushed, returned, discarded, popped>>

\* The Timeout's channel breaks: poll() reports Err from now on.
TimerFail ==
  /\ next_timeout.some
  /\ next_timeout.val.status = "pending"
  /\ next_timeout' = Some([next_timeout.val EXCEPT !.status = "error"])
  /\ last' = NoCall
  /\ UNCHANGED <<queue, now, n_pushed, returned, discarded, popped>>

Next ==
  \/ \E item \in Payloads, timeout \in Timeouts, t2 \in Later(now) : Push(item, timeout, t2)
  \/ \E t2 \in Later(now) : Pop(t2)
  \/ \E filter \in Filters, t2 \in Later(now) : FilterPop(filter, t2)
  \/ Tick
  \/ TimerFire
  \/ TimerFail

Spec == Init /\ [][Next]_vars

\* The caller that only pushes and pops, and keeps calling pop().
NextPop ==
  \/ \E item \in Payloads, timeout \in Timeouts, t2 \in Later(now) : Push(item, timeout, t2)
  \/ \E t2 \in Later(now) : Pop(t2)
  \/ Tick
  \/ TimerFire
  \/ TimerFail

PopSpec == Init /\ [][NextPop]_vars /\ WF_vars(\E t2 \in Later(now) : Pop(t2))

\* ============================================================== claims
Items(q) == BagToSet(q)

IsCall(l) == l.op \in {"pop", "filter_pop"}

\* The least expiry_time among the Items of the set S (S not empty).
MinExpiry(S) ==
  CHOOSE m \in {x.expiry_time : x \in S} : \A y \in S : m <= y.expiry_time

\* The Items of q the filter accepts.
Accepted(q, filter) == {x \in Items(q) : x.item \in filter}

\* C1: whenever pop() or filter_pop(pred) has returned Some(payload), the
\* expiry_time of the returned Item is at most the clock value of the call
\* (a call that returns reads the clock once, so now is still that value).
C1_NeverBeforeTimeout ==
  (IsCall(last) /\ last.ret.some) => last.ret.val.expiry_time <= now

\* filter_pop has returned an Item at the very clock value of its expiry_time.
C1_Witness ==
  /\ last.op = "filter_pop"
  /\ last.ret.some
  /\ last.ret.val.expiry_time = now
  /\ last.ret.val.expiry_time > 0

\* What a step that is a pop() call must satisfy.
C2_PopStep ==
  last'.op = "pop" =>
    /\ last'.ret.some <=>
         (queue # EmptyBag /\ MinExpiry(Items(queue)) <= now)
    /\ last'.ret.some =>
         /\ BagIn(last'.ret.val, queue)
         /\ last'.ret.val.expiry_time = MinExpiry(Items(queue))

\* C2: pop() returns Some(p) exactly when the queue is not empty and its
\* least expiry_time is <= now, and then p belongs to an Item of the queue
\* with that least expiry_time; otherwise it returns None.
C2_PopReturnsEarliestExpired == [][C2_PopStep]_vars

\* pop() has returned an Item whose expiry_time equals the clock value while
\* a later Item stays behind.
C2_Witness ==
  /\ last.op = "pop"
  /\ last.ret.some
  /\ last.ret.val.expiry_time = now
  /\ \E x \in Items(queue) : x.expiry_time > now

\* What every step must satisfy of the latest expiry_time pop() handed out.
C4_PopStep ==
  popped.some => (popped'.some /\ popped.val <= popped'.val)

\* C4: the expiry_time of the Items that successive pop() calls return never
\* decreases (the clock of the model never runs backwards).
C4_PopOrderNonDecreasing == [][C4_PopStep]_vars

\* pop() has returned the Item pushed first after the Item pushed behind it
\* was returned: both have left, the one pushed later first.
C4_Witness ==
  /\ last.op = "pop"
  /\ last.ret.some
  /\ last.ret.val.id = 1
  /\ last.ret.val.expiry_time > 0
  /\ BagCardinality(returned) = 2
  /\ discarded = EmptyBag

\* The count in a state, and what a step that is a push must satisfy.
C5_Count ==
  /\ len(queue) = n_pushed - (BagCardinality(returned) + BagCardinality(discarded))
  /\ is_empty(queue) <=> (len(queue) = 0)

C5_PushStep == last'.op = "push" => len(queue') = len(queue) + 1

\* C5: len() is the number of pushes minus the number of Items returned and
\* of Items discarded; is_empty() holds exactly when len() is 0; every push
\* raises len() by one.
C5_LenIsPushedMinusRemoved == []C5_Count /\ [][C5_PushStep]_vars

\* Items were pushed, one was returned and one discarded.
C5_Witness ==
  /\ n_pushed = MaxPush
  /\ BagCardinality(returned) > 0
  /\ BagCardinality(discarded) > 0
  /\ len(queue) = n_pushed - 2

\* C3: under the caller that only pushes and pops and keeps calling pop(),
\* every Item of the queue whose expiry_time the clock has passed is
\* eventually returned by a pop() call, whatever is pushed meanwhile.
C3_ExpiredEventuallyPopped ==
  \A id \in 1..MaxPush :
    (\E x \in Items(queue) : x.id = id /\ x.expiry_time < now)
      ~> BagIn(id, returned)

\* pop() has returned the Item pushed first after an Item was pushed behind it.
C3_Witness ==
  /\ last.op = "pop"
  /\ last.ret.some
  /\ last.ret.val.id = 1
  /\ last.ret.val.expiry_time < now
  /\ n_pushed = MaxPush
  /\ queue # EmptyBag

\* Where the pushed ids are in a state, and what a step may leave in the queue.
C6_Conserved ==
  /\ \A id \in 1..n_pushed :
       CopiesIn(id, IdsOf(queue)) + CopiesIn(id, returned) + CopiesIn(id, discarded) = 1
  /\ \A id \in BagToSet(IdsOf(queue)) \cup BagToSet(returned) \cup BagToSet(discarded) :
       id \in 1..n_pushed

C6_Step ==
  \A x \in Items(queue') :
    \/ BagIn(x, queue)
    \/ last'.op = "push" /\ x = last'.entry /\ x.id = n_pushed' /\ n_pushed' = n_pushed + 1

\* C6: every pushed Item is, exactly once, in the queue or among the
\* returned or among the discarded Items, and an Item of the queue keeps the
\* expiry_time and the payload it was pushed with: what a step leaves in the
\* queue was there before, or is the Item just pushed.
C6_LiveSetConserved == []C6_Conserved /\ [][C6_Step]_vars

\* filter_pop has dropped one Item and put an accepted, unexpired one back.
C6_Witness ==
  /\ last.op = "filter_pop"
  /\ ~last.ret.some
  /\ last.dropped # EmptyBag
  /\ \E x \in last.applied : BagIn(x, queue) /\ x.expiry_time > now

\* What a step that is a pop() call returning None must satisfy.
C7_Step ==
  (last'.op = "pop" /\ ~last'.ret.some) =>
    /\ queue' = queue
    /\ len(queue') = len(queue)
    /\ \A r \in filter_pop(queue', AlwaysTrue, now) : ~r.ret.some /\ r.queue = queue'

\* C7: a pop() that returns None leaves the queue (and len()) as it was, and
\* the same call at the same clock value returns None again.
C7_PopNoneChangesNothing == [][C7_Step]_vars

\* pop() has returned None on a queue that holds Items.
C7_Witness ==
  /\ last.op = "pop"
  /\ ~last.ret.some
  /\ len(queue) = MaxPush

\* What a step that is a filter_pop call must satisfy of the Items it drops,
\* and what holds of the dropped ids in a state.
C8_Step ==
  last'.op = "filter_pop" =>
    LET f == last'.filter
        acc == Accepted(queue, f)
        d == last'.dropped
        ret == last'.ret
    IN /\ \A x \in Items(d) :
            /\ BagIn(x, queue) /\ ~Apply(f, x.item)
            /\ ~BagIn(x, queue')
            /\ ret.some => ret.val # x
       /\ \A x \in last'.applied : ~Apply(f, x.item) => BagIn(x, d)
       /\ queue = queue' (+) d (+) (IF ret.some THEN One(ret.val) ELSE EmptyBag)
       /\ acc # {} => \A x \in Items(queue') : x.expiry_time >= MinExpiry(acc)
       /\ acc = {} => (queue' = EmptyBag /\ ~ret.some)

C8_Permanent ==
  /\ \A x \in Items(queue) : ~BagIn(x.id, discarded)
  /\ \A id \in BagToSet(returned) : ~BagIn(id, discarded)

\* C8: filter_pop(pred) drops, and does not return, every Item it takes out
\* that pred rejects, expired or not; no Item earlier than the first accepted
\* one stays; when pred rejects all the queue ends empty and None is returned;
\* a dropped Item is never in the queue again.
C8_RejectedPrefixDiscarded == []C8_Permanent /\ [][C8_Step]_vars

\* filter_pop has dropped an Item that had not expired.
C8_Witness ==
  /\ last.op = "filter_pop"
  /\ \E x \in Items(last.dropped) : x.expiry_time > now
  /\ queue # EmptyBag

\* What a step that is a filter_pop call must satisfy of its result.
C9_Step ==
  last'.op = "filter_pop" =>
    LET f == last'.filter
        acc == Accepted(queue, f)
        ret == last'.ret
    IN /\ ret.some <=> (acc # {} /\ MinExpiry(acc) <= now)
       /\ ret.some =>
            /\ ret.val \in acc
            /\ ret.val.expiry_time = MinExpiry(acc)
            /\ ~BagIn(ret.val, queue')
       /\ (acc # {} /\ MinExpiry(acc) > now) =>
            /\ ~ret.some
            /\ \A x \in acc : CopiesIn(x, queue') = CopiesIn(x, queue)
            /\ \E x \in acc :
                 /\ last'.applied \cap acc = {x}
                 /\ x.expiry_time = MinExpiry(acc)

\* C9: filter_pop(pred) returns Some(p) exactly when pred accepts some Item
\* and the least expiry_time among the accepted Items is <= now, p belongs to
\* such an Item, which leaves the queue; when that least expiry_time is in
\* the future the call returns None, every accepted Item stays as it was, and
\* the scan stops at the first accepted Item.
C9_FirstAcceptedDecides == [][C9_Step]_vars

\* filter_pop has dropped a rejected Item and returned the accepted one behind
\* it, whose expiry_time is the clock value.
C9_Witness ==
  /\ last.op = "filter_pop"
  /\ last.ret.some
  /\ last.ret.val.expiry_time = now
  /\ last.dropped # EmptyBag

\* What a step that is a filter_pop call must satisfy of the later Items.
C10_Step ==
  last'.op = "filter_pop" =>
    LET acc == Accepted(queue, last'.filter)
    IN acc # {} =>
         \A x \in Items(queue) :
           x.expiry_time > MinExpiry(acc) =>
             /\ CopiesIn(x, queue') = CopiesIn(x, queue)
             /\ x \notin last'.applied

\* C10: filter_pop(pred) leaves every Item later than the first accepted one
\* in the queue as it was, and does not call pred on it.
C10_LaterItemsUntouched == [][C10_Step]_vars

\* filter_pop has returned an Item and left behind a later Item that pred
\* rejects and that has expired.
C10_Witness ==
  /\ last.op = "filter_pop"
  /\ last.ret.some
  /\ \E x \in Items(queue) :
       /\ ~Apply(last.filter, x.item)
       /\ x.expiry_time <= now
       /\ x.expiry_time > last.ret.val.expiry_time

\* ------------------------------------------------------ the wake-up handle
\* The other ways the handle may be at a call: absent, or registered for now
\* and not fired (the fired handles are among the states reached).
OtherTimers == {NoneV, Some([deadline |-> now, status |-> "pending"])}

\* What a call gives its caller and leaves in the heap.
Seen(o) == [queue |-> o.queue, ret |-> o.ret, dropped |-> o.dropped]

\* In a state: every call gives the same results and the same heap whatever
\* the handle is.
C11_SameResults ==
  /\ \A filter \in Filters :
       LET here == {Seen(o) : o \in call_filter_pop(queue, next_timeout, now, filter, now)}
       IN \A nt \in OtherTimers :
            {Seen(o) : o \in call_filter_pop(queue, nt, now, filter, now)} = here
  /\ \A item \in Payloads, timeout \in Timeouts :
       LET here == call_push(queue, next_timeout, now, item, timeout, now, n_pushed + 1).queue
       IN \A nt \in OtherTimers :
            call_push(queue, nt, now, item, timeout, now, n_pushed + 1).queue = here

\* On a step: the heap changes by the pushed, the returned and the dropped
\* Items alone, whatever happens to the handle.
C11_Step ==
  /\ last'.op = "push" => queue' = queue (+) One(last'.entry)
  /\ IsCall(last') =>
       queue = queue' (+) last'.dropped
                 (+) (IF last'.ret.some THEN One(last'.ret.val) ELSE EmptyBag)
  /\ last'.op = "none" => queue' = queue

\* C11: the results of pop and filter_pop and the contents of the queue after
\* every call are the same however the wake-up handle behaves (fired, not
\* fired, broken or absent), and the synchronization of the handle adds,
\* removes and reorders nothing.
C11_HandleDoesNotInterfere == []C11_SameResults /\ [][C11_Step]_vars

\* pop() has returned an expired Item while the handle had not fired.
C11_Witness ==
  /\ last.op = "pop"
  /\ last.ret.some
  /\ next_timeout.some
  /\ next_timeout.val.status = "pending"
  /\ queue # EmptyBag

\* C12: a queue as new() or default() leaves it, and as long as nothing was
\* pushed, is empty: is_empty() holds, len() is 0, pop() returns None and no
\* wake-up handle is registered.
C12_FreshIsEmpty ==
  n_pushed = 0 =>
    /\ is_empty(queue)
    /\ len(queue) = 0
    /\ ~next_timeout.some
    /\ \A o \in call_filter_pop(queue, next_timeout, now, AlwaysTrue, now) : ~o.ret.some
    /\ IsCall(last) => ~last.ret.some

\* pop() was called on the queue nothing was pushed to, and returned None.
C12_Witness ==
  /\ n_pushed = 0
  /\ last.op = "pop"
  /\ ~last.ret.some
  /\ is_empty(queue)

\* What a step that is a call must satisfy if poll_timeout runs at its end.
C13_Step ==
  /\ IsCall(last') =>
       \E t2 \in Later(now) : next_timeout' = poll_timeout(queue', next_timeout, t2)
  /\ last'.op = "push" =>
       \E t2 \in Later(now) :
         \/ next_timeout' = poll_timeout(queue', next_timeout, t2)
         \/ next_timeout' = poll_timeout(queue', NoneV, t2)

\* C13: every call of push, pop and filter_pop ends with the wake-up
\* synchronization, also when pop or filter_pop returns Some(payload): a handle
\* that is absent or has fired at the end of the call has been recomputed
\* against the least expiry_time of the queue the call leaves.
C13_SyncOnEveryReturn == [][C13_Step]_vars

\* The handle is registered and has not fired.
Pending(nt) == nt.some /\ nt.val.status = "pending"

\* The greater of two instants.
MaxOf(a, b) == IF a >= b THEN a ELSE b

\* The push that has just been made went strictly before the least
\* expiry_time of the queue it found, which held Items.
PushedEarlier ==
  /\ last'.op = "push"
  /\ queue # EmptyBag
  /\ last'.entry.expiry_time < MinExpiry(Items(queue))

\* C14: in every reachable state, a handle that is registered and has not
\* fired, while the queue holds Items, fires no later than the least
\* expiry_time of the queue.
C14_HandleNotAfterMinimum ==
  (Pending(next_timeout) /\ queue # EmptyBag) =>
    next_timeout.val.deadline <= MinExpiry(Items(queue))

\* C15: after every push, pop and filter_pop call, if the queue holds Items
\* and its least expiry_time is in the future, a wake-up handle is registered.
C15_NoMissedWakeup ==
  (last.op \in {"push", "pop", "filter_pop"}
     /\ queue # EmptyBag /\ MinExpiry(Items(queue)) > now) =>
    next_timeout.some

\* The handle that poll_timeout finds at the end of the step, when the step is
\* a call that reaches it (push drops the handle first when PushedEarlier).
Polled == IF PushedEarlier THEN NoneV ELSE next_timeout

\* The step is a call that runs poll_timeout: a push, or a pop or filter_pop
\* that returns None.
SyncRuns == last'.op = "push" \/ (IsCall(last') /\ ~last'.ret.some)

\* What a step that runs the synchronization on an absent or fired handle
\* must satisfy.
C16_Step ==
  (SyncRuns /\ poll(Polled) = "Ready") =>
    /\ next_timeout'.some <=> queue' # EmptyBag
    /\ queue' # EmptyBag =>
         next_timeout' = Some([deadline |-> MaxOf(now', MinExpiry(Items(queue'))),
                               status |-> "pending"])

\* C16: when the synchronization finds the handle absent or fired, it leaves a
\* handle registered exactly when the queue holds Items: for
\* max(0, least expiry_time - now), so of duration zero when the least
\* expiry_time has passed; it clears the handle when the queue is empty.
C16_SyncRegistersIffNonEmpty == [][C16_Step]_vars

\* What a step that is a push must satisfy of the handle.
C17_Step ==
  /\ PushedEarlier =>
       next_timeout' = Some([deadline |-> MaxOf(now', last'.entry.expiry_time),
                             status |-> "pending"])
  /\ (last'.op = "push" /\ queue # EmptyBag /\ Pending(next_timeout)
        /\ last'.entry.expiry_time = MinExpiry(Items(queue))) =>
       next_timeout' = next_timeout

\* C17: a push strictly before the least expiry_time of a queue that holds
\* Items drops the handle, fired or not, and leaves a handle registered for
\* the expiry_time of the new Item; a push at the least expiry_time does not
\* reset the handle.
C17_EarlierPushReregisters == [][C17_Step]_vars

\* What a step must satisfy of a handle that has not fired.
C18_Step ==
  (Pending(next_timeout) /\ (IsCall(last') \/ (last'.op = "push" /\ ~PushedEarlier))) =>
    next_timeout' = next_timeout

\* C18: a handle that is registered and has not fired is left as it is by
\* every pop and filter_pop call and by every push that is not strictly
\* before the least expiry_time of the queue, a push onto the empty queue
\* included.
C18_PendingHandleKept == [][C18_Step]_vars

\* A push onto the empty queue has left a handle in place that is registered
\* for a later instant than the expiry_time of the pushed Item.
C18_Witness ==
  /\ last.op = "push"
  /\ queue = One(last.entry)
  /\ Pending(next_timeout)
  /\ next_timeout.val.deadline > last.entry.expiry_time

\* The handle is one whose poll() reports an error.
Broken(nt) == nt.some /\ nt.val.status = "error"

\* In a state with a broken handle: every call gives the results and leaves
\* the heap it would without a handle.
C19_SameResults ==
  Broken(next_timeout) =>
    \A filter \in Filters, t2 \in Later(now) :
      {Seen(o) : o \in call_filter_pop(queue, NoneV, now, filter, t2)}
        = {Seen(o) : o \in call_filter_pop(queue, next_timeout, now, filter, t2)}

\* What a step must satisfy of a broken handle: it stays, unless the step is
\* a push strictly before the least expiry_time, which replaces it.
C19_Step ==
  Broken(next_timeout) =>
    /\ next_timeout' # next_timeout <=> PushedEarlier
    /\ (SyncRuns /\ ~PushedEarlier) => next_timeout' = next_timeout

\* C19: when poll() of the handle reports an error the synchronization keeps
\* the handle and registers no new one; the queue and the results of pop and
\* filter_pop are as without it; only a later push strictly before the least
\* expiry_time replaces the handle.
C19_BrokenHandleKept == []C19_SameResults /\ [][C19_Step]_vars

\* pop() has returned None and run the synchronization on a broken handle,
\* which is still there, while the queue holds an Item.
C19_Witness ==
  /\ last.op = "pop"
  /\ ~last.ret.some
  /\ Broken(next_timeout)
  /\ queue # EmptyBag

====
